---- MODULE Spec2Model ----
(***************************************************************************)
(* Model of global_search (src/search.py): the recursive literal search    *)
(* with comment awareness, replace mode, statistics mode and editor        *)
(* launch.  Text is a sequence of one-character strings; a file on disk is *)
(* one flat text, and reading it yields its lines, each with its line      *)
(* break, as Python's file iteration does.                                  *)
(***************************************************************************)
EXTENDS Integers, Sequences, FiniteSets, TLC

\* ------------------------------------------------------------------------
\* Bounds of the model
\* ------------------------------------------------------------------------
MaxFiles == 2
MaxLen == 4
MaxMaximum == 2

\* ------------------------------------------------------------------------
\* Python values and string primitives
\* ------------------------------------------------------------------------
\* An optional argument is the empty set (None) or a singleton.
None == {}
Some(x) == {x}
Val(opt) == CHOOSE x \in opt : TRUE

NL == "\n"
Whitespace == {" ", NL}

\* default of the comment_marker parameter
comment_marker == "#"

SUPPORTED_EDITORS == {"geany", "gedit", "nano", "vim", "emacs", "kate", "kile"}

Min(S) == CHOOSE x \in S : \A y \in S : x <= y

\* str.lower on one character (the letters of the model's alphabet)
LowerChar(c) == IF c = "A" THEN "a" ELSE IF c = "B" THEN "b" ELSE c

\* str.lower
Lower(s) == [i \in 1..Len(s) |-> LowerChar(s[i])]

\* s[i:] with a 0-based offset
From(s, i) == SubSeq(s, i + 1, Len(s))

\* s[:i] with a 0-based offset
Upto(s, i) == SubSeq(s, 1, i)

\* str.lstrip(chars)
LStripChars(s, chars) ==
    LET keep == {i \in 1..Len(s) : s[i] \notin chars}
    IN IF keep = {} THEN <<>> ELSE SubSeq(s, Min(keep), Len(s))

\* str.strip(chars)
StripChars(s, chars) ==
    LET keep == {i \in 1..Len(s) : s[i] \notin chars}
    IN IF keep = {} THEN <<>>
       ELSE SubSeq(s, Min(keep), CHOOSE j \in keep : \A k \in keep : k <= j)

\* str.startswith(c) for a one-character c
StartsWith(s, c) == Len(s) > 0 /\ s[1] = c

\* c in s, for a one-character c
CharIn(c, s) == \E i \in 1..Len(s) : s[i] = c

\* str.find(sub): the 0-based offset of the first occurrence, or -1
Find(s, sub) ==
    LET at == {i \in 0..(Len(s) - Len(sub)) : SubSeq(s, i + 1, i + Len(sub)) = sub}
    IN IF at = {} THEN -1 ELSE Min(at)

\* variant: only the first occurrence is replaced
ReplaceFirst(s, old, new) ==
    LET p == Find(s, old)
    IN IF p = -1 THEN s ELSE Upto(s, p) \o new \o From(s, p + Len(old))

\* str.replace(old, new) for a non-empty old: left to right, non-overlapping
RECURSIVE Replace(_, _, _)
Replace(s, old, new) ==
    LET p == Find(s, old)
    IN IF p = -1 THEN s
       ELSE Upto(s, p) \o new \o Replace(From(s, p + Len(old)), old, new)

\* the text written by writing the chunks one after the other
RECURSIVE Flatten(_)
Flatten(chunks) ==
    IF chunks = <<>> THEN <<>> ELSE Head(chunks) \o Flatten(Tail(chunks))

\* iterating a text file: the lines, each with its line break (the last one
\* may lack it)
RECURSIVE ReadLines(_)
ReadLines(text) ==
    IF text = <<>> THEN <<>>
    ELSE LET p == Find(text, <<NL>>)
         IN IF p = -1 THEN <<text>>
            ELSE <<Upto(text, p + 1)>> \o ReadLines(From(text, p + 1))

\* ------------------------------------------------------------------------
\* The line scanner (pure part of the loop body)
\* ------------------------------------------------------------------------
NoMode == "None"

\* variant: a loop that follows the marker and ignores the quotes
ModeStepNoQuotes(mode, c) ==
    IF c = comment_marker
    THEN IF mode = "None" THEN c ELSE "None"
    ELSE mode

\* variant: nothing ends a comment
ModeStepSticky(mode, c) ==
    IF mode = comment_marker THEN mode
    ELSE IF c \in {"'", "\"", comment_marker}
    THEN IF mode = NoMode THEN c
         ELSE IF mode = c THEN NoMode
         ELSE mode
    ELSE mode

\* one step of the quote/comment loop over the text before the match
ModeStep(mode, c) ==
    IF c \in {"'", "\"", comment_marker}
    THEN IF mode = NoMode THEN c
         ELSE IF mode = c THEN NoMode
         ELSE mode
    ELSE mode

\* the mode after the whole loop, started with mode
RECURSIVE ModeLoop(_, _)
ModeLoop(mode, substr) ==
    IF substr = <<>> THEN mode
    ELSE ModeLoop(ModeStep(mode, Head(substr)), Tail(substr))

\* "substring found inside a comment": the marker is in the text before the
\* match and the loop ends in the marker's mode
InsideComment(substr) ==
    /\ CharIn(comment_marker, substr)
    /\ ModeLoop(NoMode, substr) = comment_marker

\* a comment line: the first non-blank character is the marker
IsCommentLine(line) == StartsWith(LStripChars(line, Whitespace), comment_marker)

\* variant: the line is searched as it was read
FoldedNever(line, cs) == line

\* the line searched: lower-cased unless the search is case-sensitive
Folded(line, cs) == IF cs THEN line ELSE Lower(line)

\* variant: when the first occurrence is dropped the next ones are looked at
MatchPosRetry(line, str, cs, inc) ==
    IF ~inc /\ IsCommentLine(line) THEN -1
    ELSE LET l == Folded(line, cs)
             kept == {p \in 0..Len(l) :
                         /\ Find(From(l, p), str) = 0
                         /\ inc \/ ~InsideComment(Upto(l, p))}
         IN IF kept = {} THEN -1 ELSE Min(kept)

\* the offset of the occurrence the loop body accepts in the line, or -1 when
\* it goes on to the next line without counting one
MatchPos(line, str, cs, inc) ==
    IF ~inc /\ IsCommentLine(line) THEN -1
    ELSE LET pos == Find(Folded(line, cs), str)
         IN IF pos = -1 THEN -1
            ELSE IF ~inc /\ InsideComment(Upto(Folded(line, cs), pos)) THEN -1
            ELSE pos

\* variant: every line that starts with the marker is a comment
ClassifyDividerAsComment(line) ==
    LET l == StripChars(line, Whitespace)
    IN IF l # <<>>
       THEN IF l[1] # comment_marker THEN "code" ELSE "comment"
       ELSE "empty"

\* statistics mode: the counter a line increments
Classify(line) ==
    LET l == StripChars(line, Whitespace)
    IN IF l # <<>>
       THEN IF l[1] # comment_marker THEN "code"
            ELSE IF StripChars(l, {comment_marker}) # <<>> THEN "comment"
            ELSE "empty"
       ELSE "empty"

\* the command line built for a supported editor
Command(editor, lineno, file) ==
    IF editor \in {"geany", "kate"} THEN <<editor, "-l", lineno, file>>
    ELSE IF editor \in {"kile"} THEN <<editor, "--line", lineno, file>>
    ELSE <<editor, "+", lineno, file>>

\* ------------------------------------------------------------------------
\* State
\* ------------------------------------------------------------------------
VARIABLES
    string, case, include_comments, maximum, stats, replace_with,
    edit_with, edit_result,                 \* the arguments
    disk,                                   \* the files found, in order: their text
    orig,                                   \* the text of the files when the run began
    pc,                                     \* where the run is
    fi,                                     \* index of the current file in fichiers
    fichier, n,                             \* the open file's lines, and lines read
    code_lines_count, comments_lines_count, empty_lines_count,
    files_count, matching_lines, occurrences,
    correct_encoding, lines, results,
    written,                                \* the files opened for writing
    nread,                                  \* lines read so far, over all files
    printed,                                \* results displayed, in order
    warnings,                               \* warnings printed, in order
    launched,                               \* commands given to subprocess.call
    ret                                     \* the value returned

args == <<string, case, include_comments, maximum, stats, replace_with,
          edit_with, edit_result>>
counters == <<code_lines_count, comments_lines_count, empty_lines_count,
              files_count, matching_lines, occurrences>>
perfile == <<fichier, n, correct_encoding, lines, results>>
output == <<printed, warnings, launched, ret>>
vars == <<args, disk, orig, written, nread, pc, fi, counters, perfile, output>>

\* ------------------------------------------------------------------------
\* Initial states: the arguments and the files found under the directory
\* ------------------------------------------------------------------------
\* the directory trees of at most k files drawn from texts
Trees(texts, k) == UNION {[1..m -> texts] : m \in 0..k}

InitWith(strs, cases, incs, statss, repls, maxs, edits, trees) ==
    /\ string \in strs
    /\ case \in cases
    /\ include_comments \in incs
    /\ stats \in statss
    /\ replace_with \in repls
    /\ maximum \in maxs
    /\ \E e \in edits : edit_with = e[1] /\ edit_result = e[2]
    /\ disk \in trees
    /\ orig = disk
    /\ written = {}
    /\ nread = 0
    /\ pc = "start"
    /\ fi = 0
    /\ fichier = <<>> /\ n = 0
    /\ code_lines_count = 0 /\ comments_lines_count = 0
    /\ empty_lines_count = 0 /\ files_count = 0
    /\ matching_lines = 0 /\ occurrences = 0
    /\ correct_encoding = TRUE /\ lines = <<>> /\ results = <<>>
    /\ printed = <<>> /\ warnings = <<>> /\ launched = <<>> /\ ret = <<>>

\* ------------------------------------------------------------------------
\* The run
\* ------------------------------------------------------------------------
\* Entry of global_search, up to the file loop: an empty string turns the
\* statistics on, a case-insensitive search lower-cases the string, and a
\* replacement asserts a case-sensitive search.
\* variant: no assertion on entry
StartPcNoAssert == "files"

\* assert case, when a replacement is given
StartPc == IF replace_with # None /\ ~case THEN "AssertionError" ELSE "files"

\* variant: the statistics only when asked for
StartStatsAsked == stats

\* if not string: stats = True
StartStats == stats \/ string = <<>>

Start ==
    /\ pc = "start"
    /\ stats' = StartStats
    /\ string' = Folded(string, case)
    /\ pc' = StartPc
    /\ UNCHANGED <<case, include_comments, maximum, replace_with, edit_with,
                   edit_result, disk, orig, written, nread, fi, counters, perfile,
                   output>>

\* The next file of fichiers matches a pattern of skip_paths: it is passed
\* over.  (The file names and the patterns are not part of the model: whether
\* a file matches is left open.)
SkipFile ==
    /\ pc = "files"
    /\ fi < Len(disk)
    /\ fi' = fi + 1
    /\ UNCHANGED <<args, disk, orig, written, nread, pc, counters, perfile, output>>

\* The next file of fichiers is opened.
OpenFile ==
    /\ pc = "files"
    /\ fi < Len(disk)
    /\ fi' = fi + 1
    /\ files_count' = files_count + 1
    /\ correct_encoding' = TRUE
    /\ fichier' = ReadLines(disk[fi + 1])
    /\ n' = 0
    /\ lines' = <<>>
    /\ results' = <<>>
    /\ pc' = "lines"
    /\ UNCHANGED <<args, disk, orig, written, nread, code_lines_count,
                   comments_lines_count, empty_lines_count, matching_lines,
                   occurrences, output>>

\* the editor is asked for on the result about to be numbered num
EditAsked(num) ==
    /\ edit_with # None
    /\ edit_result # None
    /\ (Val(edit_result) = {} \/ num \in Val(edit_result))

\* variant: the limit itself already ends the run
ExceededAtLimit(num) == num >= maximum

\* the result limit is exceeded by the num-th matching line
Exceeded(num) == num > maximum

\* variant: the replaced line is added after the line read
NewLinesAppended(buffered, line) ==
    IF replace_with # None
    THEN Append(buffered, Replace(line, string, Val(replace_with)))
    ELSE buffered

\* the buffer of lines after a match in line, the last of buffered
NewLines(buffered, line) ==
    IF replace_with # None
    THEN [buffered EXCEPT ![Len(buffered)] = Replace(line, string, Val(replace_with))]
    ELSE buffered

\* One iteration of the loop over the lines of the open file.
ReadLine ==
    /\ pc = "lines"
    /\ n < Len(fichier)
    /\ LET raw == fichier[n + 1]
           buffered == IF replace_with # None THEN Append(lines, raw) ELSE lines
           kind == Classify(raw)
           line == Folded(raw, case)
           pos == MatchPos(raw, string, case, include_comments)
           num == matching_lines + 1
           crash == EditAsked(num) /\ Val(edit_with) \notin SUPPORTED_EDITORS
       IN /\ n' = n + 1
          /\ nread' = nread + 1
          /\ IF stats
             THEN /\ lines' = buffered
                  /\ code_lines_count' = code_lines_count + (IF kind = "code" THEN 1 ELSE 0)
                  /\ comments_lines_count' =
                         comments_lines_count + (IF kind = "comment" THEN 1 ELSE 0)
                  /\ empty_lines_count' = empty_lines_count + (IF kind = "empty" THEN 1 ELSE 0)
                  /\ UNCHANGED <<pc, matching_lines, occurrences, results, output>>
             ELSE IF pos = -1
             THEN /\ lines' = buffered
                  /\ UNCHANGED <<pc, code_lines_count, comments_lines_count,
                                 empty_lines_count, matching_lines, occurrences,
                                 results, output>>
             ELSE /\ occurrences' = occurrences + 1
                  /\ lines' = NewLines(buffered, line)
                  /\ results' = Append(results,
                                       [num |-> num, lineno |-> n + 1, pos |-> pos])
                  /\ warnings' = IF crash
                                 THEN Append(warnings, <<"not supported", Val(edit_with)>>)
                                 ELSE warnings
                  /\ launched' = IF EditAsked(num) /\ ~crash
                                 THEN Append(launched, Command(Val(edit_with), n + 1, fi))
                                 ELSE launched
                  /\ IF crash
                     THEN \* subprocess.call(command, ...) with command unbound
                          /\ pc' = "UnboundLocalError"
                          /\ UNCHANGED <<matching_lines, ret>>
                     ELSE /\ matching_lines' = num
                          /\ pc' = IF Exceeded(num) THEN "Truncated" ELSE "lines"
                          /\ ret' = IF Exceeded(num)
                                    THEN <<"Maximum output exceeded...!">>
                                    ELSE ret
                  /\ UNCHANGED <<code_lines_count, comments_lines_count,
                                 empty_lines_count, printed>>
    /\ UNCHANGED <<args, disk, orig, written, fi, fichier, files_count,
                   correct_encoding>>

\* After the with block: the results of the file are displayed and, in
\* replace mode, the file is written again from the buffered lines.
\* variant: the decoding failure is not looked at
DisplayedAnyway(ok) == results # <<>>

\* variant: the test of the encoding is inverted
DisplayedOnFailure(ok) == ~ok /\ results # <<>>

\* the results of the file are displayed
Displayed(ok) == ok /\ results # <<>>

\* variant: every file read is written again in replace mode
RewrittenWithoutResults(ok) == ok /\ replace_with # None

\* variant: the file is written as soon as lines are buffered
RewrittenWhenBuffered(ok) == ok /\ lines # <<>> /\ replace_with # None

\* the file is written again
Rewritten(ok) == Displayed(ok) /\ replace_with # None

Epilogue(ok) ==
    /\ printed' = IF Displayed(ok)
                  THEN printed \o [i \in 1..Len(results) |->
                                      [file |-> fi, num |-> results[i].num,
                                       lineno |-> results[i].lineno, pos |-> results[i].pos]]
                  ELSE printed
    /\ disk' = IF Rewritten(ok) THEN [disk EXCEPT ![fi] = Flatten(lines)] ELSE disk
    /\ written' = IF Rewritten(ok) THEN written \cup {fi} ELSE written

\* The file is exhausted: the loop over its lines ends normally.
EndOfFile ==
    /\ pc = "lines"
    /\ n = Len(fichier)
    /\ Epilogue(correct_encoding)
    /\ pc' = "files"
    /\ UNCHANGED <<args, orig, nread, fi, counters, perfile, warnings, launched, ret>>

\* Reading the next line raises UnicodeDecodeError: the file is reported and
\* given up.
DecodeError ==
    /\ pc = "lines"
    /\ correct_encoding' = FALSE
    /\ warnings' = Append(warnings, <<"ERROR", fi>>)
    /\ Epilogue(FALSE)
    /\ pc' = "files"
    /\ UNCHANGED <<args, orig, nread, fi, counters, fichier, n, lines, results,
                   launched, ret>>

\* No file is left: the summary is returned.
Finish ==
    /\ pc = "files"
    /\ fi = Len(disk)
    /\ pc' = "Completed"
    /\ ret' = IF stats
              THEN <<"stats", code_lines_count, comments_lines_count,
                     empty_lines_count, files_count>>
              ELSE IF replace_with = None
              THEN <<"found", occurrences>>
              ELSE <<"replaced", occurrences>>
    /\ UNCHANGED <<args, disk, orig, written, nread, fi, counters, perfile, printed,
                   warnings, launched>>

Next == Start \/ SkipFile \/ OpenFile \/ ReadLine \/ EndOfFile \/ DecodeError \/ Finish

\* ------------------------------------------------------------------------
\* Specifications
\* ------------------------------------------------------------------------
\* Files of a small project: empty; code with one match; two matching lines
\* around a comment line; a comment line and a trailing comment; no match
\* (code, blank, divider); a line with two occurrences and a quoted marker.
SampleFiles ==
    { <<>>,
      <<"a", NL, "b", NL>>,
      <<"a", NL, "#", "a", NL, "b", "a", NL>>,
      <<"#", "a", NL, "b", "#", "a", NL>>,
      <<"b", NL, NL, "#", "#", NL>>,
      <<"a", "a", NL, "'", "#", "'", "a", NL>> }

\* no editor asked for
NoEdit == {<<None, None>>}

\* editor and results to edit: none; every result, or one result, in a
\* supported editor of each command syntax; an editor that is not supported
Edits ==
    { <<None, None>>, <<None, Some({})>>,
      <<Some("nano"), Some({})>>, <<Some("geany"), Some({2})>>,
      <<Some("kile"), Some({1})>>,
      <<Some("ed"), Some({})>>, <<Some("ed"), Some({2})>> }

\* Any run over a small project, without editor.
Init ==
    InitWith({<<>>, <<"a">>}, BOOLEAN, BOOLEAN, BOOLEAN, {None, Some(<<"c">>)},
             {0, MaxMaximum}, NoEdit, Trees(SampleFiles, MaxFiles))

Spec == Init /\ [][Next]_vars

\* A case-sensitive search over a small project, with or without editor.
InitEdit ==
    InitWith({<<"a">>}, {TRUE}, BOOLEAN, {FALSE}, {None, Some(<<"c">>)},
             0..MaxMaximum, Edits, Trees(SampleFiles, MaxFiles))

SpecEdit == InitEdit /\ [][Next]_vars

\* every text of at most k characters of the alphabet
Alphabet == {"a", "A", "#", "'", "\"", " "}
Texts(k) == UNION {[1..m -> Alphabet] : m \in 0..k}

\* every line of at most k characters before its line break
AllLines(k) == {l \o <<NL>> : l \in Texts(k)}

\* A search over one file of one line, over every line of the alphabet.
InitScan ==
    InitWith({<<"a">>}, BOOLEAN, BOOLEAN, {FALSE}, {None, Some(<<"c">>)},
             {MaxMaximum}, NoEdit,
             {<<l>> : l \in AllLines(MaxLen)})

SpecScan == InitScan /\ [][Next]_vars

\* every line of at most k letters, markers and quotes
CodeLines(k) ==
    {l \o <<NL>> : l \in UNION {[1..m -> {"a", "b", "#", "'"}] : m \in 0..k}}

\* A replace-mode run, over one file of one line and over small projects,
\* for replacements that do and do not bring the string back.
InitReplace ==
    InitWith({<<"a">>, <<"a", "b">>, <<NL>>}, {TRUE}, BOOLEAN, {FALSE},
             {Some(<<"c">>), Some(<<"b">>), Some(<<"a", "a">>), Some(<<>>), Some(<<NL>>)},
             {MaxMaximum + 1}, NoEdit,
             {<<l>> : l \in CodeLines(MaxLen)} \cup Trees(SampleFiles, MaxFiles))

SpecReplace == InitReplace /\ [][Next]_vars

\* A statistics run (asked for, or forced by an empty string), over one file
\* of one line and over small projects.
InitStats ==
    InitWith({<<>>, <<"a">>}, {TRUE}, {FALSE}, BOOLEAN, {None, Some(<<"c">>)},
             {MaxMaximum}, NoEdit,
             {<<l>> : l \in AllLines(MaxLen)} \cup Trees(SampleFiles, MaxFiles))

SpecStats == InitStats /\ [][Next]_vars

\* A case-insensitive search for a string with upper-case letters, over one
\* file of one line, over every line of the alphabet.
InitFold ==
    InitWith({<<"A">>, <<"a", "A">>}, {FALSE}, BOOLEAN, {FALSE}, {None},
             {MaxMaximum}, NoEdit,
             {<<l>> : l \in AllLines(MaxLen)})

SpecFold == InitFold /\ [][Next]_vars

\* editor and results to edit: none; every result, in a supported editor and
\* in one that is not
SomeEdits == {<<None, None>>, <<Some("nano"), Some({})>>, <<Some("ed"), Some({})>>}

\* A statistics run that was asked for, over a small project, with or
\* without string, replacement and editor.
InitMode ==
    InitWith({<<>>, <<"a">>}, {TRUE}, BOOLEAN, {TRUE}, {None, Some(<<"c">>)},
             {0, MaxMaximum}, SomeEdits, Trees(SampleFiles, MaxFiles))

SpecMode == InitMode /\ [][Next]_vars

\* the files of the small project and one more: a line with an occurrence
\* between two markers and another after them
LineFiles == SampleFiles \cup { <<"b", "#", "a", "#", "a", NL>> }

\* A case-sensitive search over those files, with or without editor.
InitLines ==
    InitWith({<<"a">>}, {TRUE}, BOOLEAN, {FALSE}, {None, Some(<<"c">>)},
             0..MaxMaximum, SomeEdits, Trees(LineFiles, MaxFiles))

SpecLines == InitLines /\ [][Next]_vars

\* A run that does not ask for the statistics, with or without string, over
\* a small project, with or without replacement and editor.
InitEmpty ==
    InitWith({<<>>, <<"a">>}, {TRUE}, BOOLEAN, {FALSE}, {None, Some(<<"c">>)},
             {0, MaxMaximum}, SomeEdits, Trees(SampleFiles, MaxFiles))

SpecEmpty == InitEmpty /\ [][Next]_vars

\* ------------------------------------------------------------------------
\* Properties
\* ------------------------------------------------------------------------
\* A lexer of one line in which a comment runs to the end of the line: the
\* region (none, a quote, the comment) the text ends in.
LexStep(mode, c) ==
    IF mode = comment_marker THEN mode
    ELSE IF mode = NoMode
    THEN (IF c \in {"'", "\"", comment_marker} THEN c ELSE mode)
    ELSE IF c = mode THEN NoMode
    ELSE mode

RECURSIVE LexMode(_, _)
LexMode(mode, text) ==
    IF text = <<>> THEN mode ELSE LexMode(LexStep(mode, Head(text)), Tail(text))

\* offset p of the line lies in its trailing comment
InTrailingComment(line, p) == LexMode(NoMode, Upto(line, p)) = comment_marker

\* there are markers before offset p, each inside a quoted region
MarkersQuoted(line, p) ==
    /\ \E i \in 1..p : line[i] = comment_marker
    /\ \A i \in 1..p : line[i] = comment_marker =>
           LexMode(NoMode, Upto(line, i - 1)) \in {"'", "\""}

\* a step that reads a line in search mode
SearchStep == n' = n + 1 /\ ~stats

\* C1 (comment exclusion): a line whose first occurrence of the string lies
\* in the trailing comment yields no occurrence when comments are excluded
\* (nothing counted, displayed or replaced), and one occurrence at the offset
\* of that first occurrence when comments are included.
C1_CommentExclusion ==
    [][SearchStep =>
          LET raw == fichier[n + 1]
              l == Folded(raw, case)
              p == Find(l, string)
          IN (p # -1 /\ InTrailingComment(l, p)) =>
                IF include_comments
                THEN /\ occurrences' = occurrences + 1
                     /\ results' = Append(results, [num |-> matching_lines + 1,
                                                    lineno |-> n + 1, pos |-> p])
                ELSE /\ occurrences' = occurrences
                     /\ matching_lines' = matching_lines
                     /\ results' = results
                     /\ (replace_with # None => lines' = Append(lines, raw))]_vars

\* C2 (quote-protected marker): with comments excluded, a first occurrence
\* whose preceding markers all lie inside quoted regions is accepted: one
\* occurrence is counted and recorded at its offset.
C2_QuoteProtected ==
    [][(SearchStep /\ ~include_comments) =>
          LET l == Folded(fichier[n + 1], case)
              p == Find(l, string)
          IN (p # -1 /\ MarkersQuoted(l, p)) =>
                /\ occurrences' = occurrences + 1
                /\ results' = Append(results, [num |-> matching_lines + 1,
                                               lineno |-> n + 1, pos |-> p])]_vars

\* a line with a closed quoted marker before the match was read and counted
C2_Witness ==
    /\ pc = "Completed" /\ n = 1 /\ ~stats /\ ~include_comments
    /\ LET l == Folded(fichier[1], case)
           p == Find(l, string)
       IN /\ p = 3
          /\ MarkersQuoted(l, p)
          /\ LexMode(NoMode, Upto(l, p)) = NoMode
    /\ occurrences = 1
    /\ ret = <<"found", 1>>

\* the matching lines of the files as they were when the run began
MatchingLines ==
    UNION {{<<f, i>> : i \in {j \in DOMAIN ReadLines(orig[f]) :
                MatchPos(ReadLines(orig[f])[j], string, case, include_comments) # -1}} :
           f \in DOMAIN orig}

\* the value returned when the limit is exceeded
Exceeding == <<"Maximum output exceeded...!">>

\* C3 (truncation): the run ends truncated, with a result that is not the
\* summary, exactly when the count of matching lines first exceeds maximum,
\* on the matching line numbered maximum + 1; nothing is scanned after that;
\* a run over files with at most maximum matching lines never ends truncated.
C3_Truncation ==
    /\ [](pc = "Truncated" =>
             /\ matching_lines = maximum + 1
             /\ ret = Exceeding
             /\ n >= 1
             /\ MatchPos(fichier[n], string, case, include_comments) # -1
             /\ ~stats
             /\ Cardinality(MatchingLines) > maximum)
    /\ [](matching_lines > maximum => pc = "Truncated")
    /\ [](pc = "Completed" => (ret # Exceeding /\ matching_lines <= maximum))
    /\ [][pc # "Truncated"]_vars

\* a run ended truncated with lines and files left unscanned
C3_Witness ==
    /\ pc = "Truncated"
    /\ matching_lines = maximum + 1
    /\ n < Len(fichier)
    /\ fi < Len(disk)

\* the occurrences a new run of the same search counts in a file
Rescan(text) ==
    Cardinality({i \in DOMAIN ReadLines(text) :
        MatchPos(ReadLines(text)[i], string, case, include_comments) # -1})

\* the characters of a text
Chars(text) == {text[i] : i \in DOMAIN text}

\* neither the string nor the replacement holds a line break
NoLineBreak == NL \notin Chars(string) \cup Chars(Val(replace_with))

\* the replacement is not empty and shares no character with the string
FreshReplacement ==
    /\ Val(replace_with) # <<>>
    /\ Chars(Val(replace_with)) \cap Chars(string) = {}

ReplaceCompleted == pc = "Completed" /\ replace_with # None /\ ~stats

\* C4 as stated (replace fixed point): after a completed replace-mode run,
\* the same search over the rewritten files finds nothing, whatever the
\* string and the replacement.
C4_FixedPoint ==
    ReplaceCompleted => \A f \in written : Rescan(disk[f]) = 0

\* C4 as amended: after a completed replace-mode run, the same search over
\* each rewritten file finds nothing, provided the replacement is not empty,
\* shares no character with the string, and neither holds a line break.
C4_FixedPointFresh ==
    (ReplaceCompleted /\ FreshReplacement /\ NoLineBreak) =>
        \A f \in written : Rescan(disk[f]) = 0

\* a file with a line of two occurrences was rewritten with a fresh replacement
C4_Witness ==
    /\ ReplaceCompleted /\ FreshReplacement /\ NoLineBreak
    /\ \E f \in written :
          \E i \in DOMAIN ReadLines(orig[f]) :
             LET l == ReadLines(orig[f])[i]
                 p == Find(l, string)
             IN p # -1 /\ Find(From(l, p + Len(string)), string) # -1

\* the lines of file f are, in order, those it began with, each line with an
\* accepted occurrence having every occurrence replaced
LinesReplaced(f) ==
    LET o == ReadLines(orig[f])
        w == ReadLines(disk[f])
    IN /\ Len(w) = Len(o)
       /\ \A i \in DOMAIN o :
             w[i] = IF MatchPos(o[i], string, case, include_comments) # -1
                    THEN Replace(o[i], string, Val(replace_with))
                    ELSE o[i]

\* C5 as stated (replace effect on a file): a rewritten file has the lines it
\* had, in order; each line with an accepted occurrence has all occurrences
\* replaced, every other line is unchanged.
C5_ReplaceEffect == \A f \in written : LinesReplaced(f)

\* C5 as amended: the same, when neither the string nor the replacement
\* holds a line break.
C5_ReplaceEffectNoBreak ==
    \A f \in written : NoLineBreak => LinesReplaced(f)

\* a rewritten file with a replaced line and an unchanged line that holds the
\* string in a comment
C5_Witness ==
    \E f \in written :
       /\ NoLineBreak
       /\ \E i, j \in DOMAIN ReadLines(orig[f]) :
             /\ ReadLines(disk[f])[i] # ReadLines(orig[f])[i]
             /\ ReadLines(disk[f])[j] = ReadLines(orig[f])[j]
             /\ Find(ReadLines(orig[f])[j], string) # -1

\* the string occurs in no line of any file
NoOccurrence ==
    \A f \in DOMAIN orig : \A i \in DOMAIN ReadLines(orig[f]) :
        Find(Folded(ReadLines(orig[f])[i], case), string) = -1

\* C6 (no-op search): when the string occurs in no line, zero occurrences
\* are counted and reported and no file is written, in replace mode too; a
\* file is written only if one of its lines had an accepted occurrence, and
\* a file that is not written keeps its text.
C6_NoOpSearch ==
    /\ \/ /\ occurrences = 0 /\ matching_lines = 0
          /\ written = {} /\ disk = orig /\ printed = <<>>
          /\ (pc = "Completed" /\ ~stats) =>
                ret = <<(IF replace_with = None THEN "found" ELSE "replaced"), 0>>
       \/ pc = "start"
       \/ ~NoOccurrence
    /\ \A f \in written :
          \E i \in DOMAIN ReadLines(orig[f]) :
             MatchPos(ReadLines(orig[f])[i], string, case, include_comments) # -1
    /\ \A f \in DOMAIN disk : f \notin written => disk[f] = orig[f]

\* a replace-mode run over lines without the string completed
C6_Witness ==
    /\ pc = "Completed" /\ replace_with # None /\ ~stats
    /\ NoOccurrence
    /\ nread >= 2
    /\ ret = <<"replaced", 0>>

\* C7 (config rejection): with a replacement and a case-insensitive search
\* the run fails on entry: no file is opened, read or written, no counter
\* moves, nothing is displayed, launched or returned.
C7_ConfigRejection ==
    (replace_with # None /\ ~case) =>
        /\ pc \in {"start", "AssertionError"}
        /\ fi = 0 /\ nread = 0 /\ fichier = <<>>
        /\ code_lines_count = 0 /\ comments_lines_count = 0
        /\ empty_lines_count = 0 /\ files_count = 0
        /\ matching_lines = 0 /\ occurrences = 0
        /\ disk = orig /\ written = {}
        /\ printed = <<>> /\ launched = <<>> /\ ret = <<>>

\* the run over a project with files failed on its assertion
C7_Witness ==
    /\ pc = "AssertionError"
    /\ replace_with # None /\ ~case
    /\ Len(disk) > 0

\* the class of a line: blank when the stripped line is empty or made of
\* markers only, comment when it starts with the marker and holds another
\* character, code otherwise
LineClass(line) ==
    LET l == StripChars(line, Whitespace)
    IN IF l = <<>> \/ \A i \in DOMAIN l : l[i] = comment_marker THEN "empty"
       ELSE IF l[1] = comment_marker /\ \E i \in DOMAIN l : l[i] # comment_marker
       THEN "comment"
       ELSE "code"

Plus(class, kind) == IF class = kind THEN 1 ELSE 0

\* C8 (blank vs comment classification): in statistics mode each line read
\* increments exactly the counter of its class, so that the three counters
\* add up to the number of lines read.
C8_Classification ==
    /\ [][(n' = n + 1 /\ stats) =>
             LET class == LineClass(fichier[n + 1])
             IN /\ code_lines_count' = code_lines_count + Plus(class, "code")
                /\ comments_lines_count' = comments_lines_count + Plus(class, "comment")
                /\ empty_lines_count' = empty_lines_count + Plus(class, "empty")]_vars
    /\ []((pc # "start" /\ stats) =>
             code_lines_count + comments_lines_count + empty_lines_count = nread)

\* a statistics run counted a code line, a blank line and a divider
C8_Witness ==
    /\ pc = "Completed"
    /\ disk = << <<"b", NL, NL, "#", "#", NL>> >>
    /\ ret = <<"stats", 1, 0, 2, 1>>

\* C9 (unsupported editor): when the editor asked for on a matching line is
\* not supported, a warning is printed, nothing is launched and the run goes
\* on to the next line or to the truncated result.
C9_UnsupportedEditor ==
    [][(SearchStep
          /\ MatchPos(fichier[n + 1], string, case, include_comments) # -1
          /\ EditAsked(matching_lines + 1)
          /\ Val(edit_with) \notin SUPPORTED_EDITORS) =>
            /\ Len(warnings') = Len(warnings) + 1
            /\ launched' = launched
            /\ pc' \in {"lines", "Truncated"}]_vars

\* the files whose reading raised a decoding failure
DecodeFailed ==
    {warnings[i][2] : i \in {j \in DOMAIN warnings : warnings[j][1] = "ERROR"}}

\* C10 (decoding-failure isolation): a file whose reading fails to decode is
\* reported, none of its results is displayed and it is not written; the
\* failure leaves the run between files, so that the files after it are
\* still reached and the run can only end completed.
C10_DecodeIsolation ==
    /\ [](\A f \in DecodeFailed :
             /\ f \notin written
             /\ disk[f] = orig[f]
             /\ \A i \in DOMAIN printed : printed[i].file # f)
    /\ [][(correct_encoding /\ ~correct_encoding') =>
             /\ warnings' = Append(warnings, <<"ERROR", fi>>)
             /\ pc' = "files" /\ fi' = fi
             /\ disk' = disk /\ printed' = printed]_vars
    /\ [](~correct_encoding => pc \in {"files", "lines", "Completed"})
    /\ [](pc = "Completed" => fi = Len(disk))

\* a replace-mode run completed after a file with a counted match failed to
\* decode, and a later file was displayed and written
C10_Witness ==
    /\ pc = "Completed"
    /\ replace_with # None
    /\ occurrences > Len(printed)
    /\ \E f \in DecodeFailed : \E g \in written : g > f

\* ------------------------------------------------------------------------
\* The display
\* ------------------------------------------------------------------------
\* C11 (display cap): a run displays only the first results up to maximum:
\* never more than maximum result lines, and when the run ends on the
\* exceeded limit, the maximum first matching lines, in the order of the
\* scan, have been displayed.
C11_DisplayCap ==
    /\ Len(printed) <= maximum
    /\ pc = "Truncated" =>
          /\ Len(printed) = maximum
          /\ \A i \in 1..maximum : printed[i].num = i

\* ------------------------------------------------------------------------
\* The count of the replacements
\* ------------------------------------------------------------------------
\* the occurrences of sub that a replacement substitutes in s: from the left,
\* without overlap
RECURSIVE Count(_, _)
Count(s, sub) ==
    LET p == Find(s, sub)
    IN IF p = -1 THEN 0 ELSE 1 + Count(From(s, p + Len(sub)), sub)

\* the occurrences substituted in the matching lines among ls
RECURSIVE SubstitutedLines(_)
SubstitutedLines(ls) ==
    IF ls = <<>> THEN 0
    ELSE (IF MatchPos(Head(ls), string, case, include_comments) # -1
          THEN Count(Head(ls), string) ELSE 0)
         + SubstitutedLines(Tail(ls))

\* the occurrences substituted in the files written, among the first k files
RECURSIVE Substituted(_)
Substituted(k) ==
    IF k = 0 THEN 0
    ELSE (IF k \in written THEN SubstitutedLines(ReadLines(orig[k])) ELSE 0)
         + Substituted(k - 1)

\* C12 (replacement count): when a replace-mode run completes, the number of
\* its summary is the number of occurrences of the string substituted in the
\* files written.
C12_ReplacementCount ==
    ReplaceCompleted => ret = <<"replaced", Substituted(Len(orig))>>

\* ------------------------------------------------------------------------
\* Case folding
\* ------------------------------------------------------------------------
\* C13 (case folding): in a search that is not case-sensitive the string is
\* lower-cased on entry, and a line counts an occurrence exactly when the
\* lower-cased line contains the lower-cased string and the comment rules
\* keep it; the position of the result is that of the first occurrence in
\* the lower-cased line.
C13_CaseFolding ==
    /\ [][(pc = "start" /\ pc' # "start" /\ ~case) => string' = Lower(string)]_vars
    /\ [][(SearchStep /\ ~case) =>
            LET raw == fichier[n + 1]
                p == Find(Lower(raw), Lower(string))
                kept == /\ p # -1
                        /\ \/ include_comments
                           \/ /\ ~IsCommentLine(raw)
                              /\ ~InsideComment(Upto(Lower(raw), p))
            IN /\ occurrences' = occurrences + (IF kept THEN 1 ELSE 0)
               /\ kept => /\ Len(results') = Len(results) + 1
                          /\ results'[Len(results')].pos = p]_vars

\* the string `aA` was found in the line ` Aa`, at offset 1
C13_Witness ==
    /\ pc = "Completed"
    /\ ~case
    /\ string = <<"a", "a">>
    /\ orig = << <<" ", "A", "a", NL>> >>
    /\ printed = <<[file |-> 1, num |-> 1, lineno |-> 1, pos |-> 1]>>
    /\ ret = <<"found", 1>>

\* ------------------------------------------------------------------------
\* The state machine over the text before the match
\* ------------------------------------------------------------------------
\* the state that a quote or marker character enters
OwnState(c) ==
    CASE c = "'" -> "InSingleQuote"
      [] c = "\"" -> "InDoubleQuote"
      [] c = comment_marker -> "InComment"

\* one transition: from None a quote or marker character enters its own
\* state, the character of the current state returns to None, and nothing
\* else changes the state
PrefixStep(state, c) ==
    IF c \notin {"'", "\"", comment_marker} THEN state
    ELSE IF state = "None" THEN OwnState(c)
    ELSE IF state = OwnState(c) THEN "None"
    ELSE state

\* the state after the text, read from left to right
RECURSIVE PrefixState(_, _)
PrefixState(state, text) ==
    IF text = <<>> THEN state
    ELSE PrefixState(PrefixStep(state, Head(text)), Tail(text))

\* the state that a mode of the loop stands for
StateOf(mode) == IF mode = NoMode THEN "None" ELSE OwnState(mode)

Terminal == pc \in {"Completed", "Truncated"}

\* what the run has done so far: lines read, files enumerated, files closed,
\* entry and exit; at most the lines and twice the files of the corpus, plus 2
Progress ==
    nread + 2 * fi - (IF pc = "lines" THEN 1 ELSE 0)
          + (IF pc = "start" THEN 0 ELSE 1) + (IF Terminal THEN 1 ELSE 0)

\* C15 (run state machine): the run is idle, scanning, completed or
\* truncated, and nothing else; idle is left for scanning; a run that is not
\* over can go on and each step brings it closer to its end, so that it ends
\* completed or truncated; a run that is over stays as it is; the files are
\* taken one after the other in the order of the enumeration and the lines of
\* a file in the order of their numbers; the run is completed only when every
\* file has been enumerated and the last one read to its end, unless its
\* decoding failed.
C15_RunStateMachine ==
    /\ [](pc \in {"start", "files", "lines", "Completed", "Truncated"})
    /\ [](Terminal \/ ENABLED Next)
    /\ [][Progress' > Progress]_vars
    /\ [](Progress <= nread + 2 * Len(disk) + 2 /\ nread <= Len(Flatten([i \in DOMAIN orig |-> orig[i]])))
    /\ [][pc = "start" => pc' = "files"]_vars
    /\ [][~Terminal]_vars
    /\ [][/\ fi' \in {fi, fi + 1}
          /\ fi' = fi + 1 => pc = "files"
          /\ (pc = "lines" /\ pc' = "lines") => n' = n + 1]_vars
    /\ [](pc = "Completed" =>
            /\ fi = Len(disk)
            /\ (files_count > 0 /\ correct_encoding) => n = Len(fichier))

\* ------------------------------------------------------------------------
\* The statistics mode
\* ------------------------------------------------------------------------
\* C16 (statistics mode exclusivity): in a statistics run no occurrence and
\* no matching line is counted, no result is kept or displayed, no editor is
\* launched, the run does not end truncated and no file is written.
C16_StatsExclusive ==
    stats =>
        /\ occurrences = 0 /\ matching_lines = 0
        /\ results = <<>> /\ printed = <<>>
        /\ launched = <<>>
        /\ pc \notin {"Truncated", "UnboundLocalError"}
        /\ written = {} /\ disk = orig

\* a statistics run completed over lines that hold the string, with a
\* replacement, an editor for every result and a limit of no result
C16_Witness ==
    /\ pc = "Completed"
    /\ stats
    /\ string = <<"a">>
    /\ replace_with # None
    /\ edit_with = Some("nano") /\ edit_result = Some({})
    /\ maximum = 0
    /\ Cardinality(MatchingLines) >= 2
    /\ ret[1] = "stats"
    /\ nread >= 3

C19_EmptyString ==
    /\ [][(pc = "start" /\ pc' # "start" /\ string = <<>>) =>
            /\ stats'
            /\ pc' = "files"
            /\ UNCHANGED <<string, case, include_comments, maximum, replace_with,
                           edit_with, edit_result, disk, orig, written, nread, fi,
                           counters, perfile, output>>]_vars
    /\ []((pc # "start" /\ string = <<>>) =>
            /\ stats
            /\ occurrences = 0 /\ matching_lines = 0
            /\ results = <<>> /\ printed = <<>> /\ launched = <<>>
            /\ written = {} /\ disk = orig
            /\ pc \in {"files", "lines", "Completed"}
            /\ code_lines_count + comments_lines_count + empty_lines_count = nread
            /\ pc = "Completed" =>
                  ret = <<"stats", code_lines_count, comments_lines_count,
                          empty_lines_count, files_count>>)

\* a run with an empty string, a replacement, an editor and a limit of no
\* result, that did not ask for the statistics, completed with the line
\* counts of the files
C19_Witness ==
    /\ pc = "Completed"
    /\ string = <<>>
    /\ replace_with # None
    /\ edit_with = Some("nano") /\ edit_result = Some({})
    /\ maximum = 0
    /\ stats
    /\ orig = << <<"a", NL, "#", "a", NL, "b", "a", NL>>, <<"b", NL, NL, "#", "#", NL>> >>
    /\ ret = <<"stats", 3, 1, 2, 2>>

====
